---- MODULE Spec2Model ----
(***************************************************************************)
(* State-machine model of BrootFile.py: the dictionary attack engine of    *)
(* UniversalBruteForcer in its two modes, brute_force_single (the main     *)
(* thread walks the wordlist) and brute_force_multi (worker threads drain  *)
(* a queue.Queue while the main thread polls, then joins with a timeout).  *)
(* Thread 0 is the main thread, threads 1..num_threads are the workers.    *)
(***************************************************************************)
EXTENDS Integers, Sequences, FiniteSets, TLC

\* Bounds of the model.
MaxLines == 2
MaxThreads == 2
\* time.time() - start_time, in ticks of the clock, reads 0..MaxElapsed
MaxElapsed == 1

\* `if self.attempts % 100 == 0:` -- a progress line every 100 attempts
ProgressEvery == 100

----------------------------------------------------------------------------
\* Text: a string is a sequence of characters; a wordlist line ends in "\n".

Whitespace == {" ", "\n"}

RECURSIVE lstrip(_)
lstrip(s) == IF s # <<>> /\ Head(s) \in Whitespace THEN lstrip(Tail(s)) ELSE s

RECURSIVE rstrip(_)
rstrip(s) ==
    IF s # <<>> /\ s[Len(s)] \in Whitespace
    THEN rstrip(SubSeq(s, 1, Len(s) - 1))
    ELSE s

\* str.strip()
strip(s) == rstrip(lstrip(s))

\* The lines a wordlist is made of: a blank line, a plain candidate and a
\* candidate with leading whitespace.
LineSet == { <<"\n">>, <<"a", "\n">>, <<" ", "b", "\n">> }

Wordlists == UNION { [1..n -> LineSet] : n \in 0..MaxLines }

Passwords == { strip(l) : l \in LineSet } \ { <<>> }

\* Path(target_file).suffix.lower(), one extension per branch of
\* detect_file_type and one that matches none.
Extensions == { ".kdbx", ".zip", ".rar", ".7z", ".pdf", ".docx", ".pem", ".txt" }

detect_file_type(ext) ==
    IF ext = ".kdbx" THEN "kdbx"
    ELSE IF ext \in {".zip", ".jar", ".war"} THEN "zip"
    ELSE IF ext = ".rar" THEN "rar"
    ELSE IF ext = ".7z" THEN "7z"
    ELSE IF ext = ".pdf" THEN "pdf"
    ELSE IF ext \in {".docx", ".xlsx", ".pptx", ".doc", ".xls", ".ppt"} THEN "office"
    ELSE IF ext \in {".id_rsa", ".ssh", ".pem", ".key"} THEN "ssh"
    ELSE "unknown"

----------------------------------------------------------------------------
VARIABLES
    \* the run's inputs and environment (fixed by Init)
    wordlist,        \* the lines of the wordlist file
    unlocking,       \* the passwords the per-format check succeeds on
    num_threads,     \* args.threads
    file_type,       \* brute_forcer.file_type
    KDBX_SUPPORT,    \* pykeepass importable
    RAR_SUPPORT,     \* rarfile importable
    SSH_SUPPORT,     \* pycryptodome importable
    OFFICE_SUPPORT,  \* msoffice.crypto importable (imported inside the call)
    TOOL_FOUND,      \* the 7z / qpdf utility main() looks for can be run
    target_exists,   \* os.path.exists(args.target_file)
    wordlist_exists, \* os.path.exists(args.wordlist)
    \* UniversalBruteForcer
    found,
    password,        \* <<>> is None, <<p>> is the string p
    attempts,
    lock,            \* the thread holding brute_forcer.lock, or NoThread
    \* brute_force_multi
    password_queue,
    joined,          \* the threads the join loop has gone through
    \* control
    pc,              \* position of each thread
    cur,             \* the line or queue entry a thread is trying (its local
                     \* `password`), NoEntry once the thread is done with it
    tmp,             \* attempts as read by a thread inside `attempts += 1`
    pos,             \* lines the file iterator of brute_force_single has read
    \* main()'s final report
    repFound, repPassword, repAttempts, repSpeed,
    \* history
    passed,          \* trials that passed the guard of try_password
    taken,           \* per queue entry, how often get_nowait returned it
    verified,        \* passwords on which try_password returned True
    aborted,         \* trials a KeyboardInterrupt cut short between the
                     \* guard and the increment of attempts
    cancelled,       \* a KeyboardInterrupt was handled
    attemptsAtCancel,
    activeAtCancel,
    \* what the run has written to the terminal
    printed,         \* the progress lines of try_password, in order
    warnings         \* how many times a helper printed "... support requires"

env == <<wordlist, unlocking, num_threads, file_type,
         KDBX_SUPPORT, RAR_SUPPORT, SSH_SUPPORT, OFFICE_SUPPORT,
         TOOL_FOUND, target_exists, wordlist_exists>>
shared == <<found, password, attempts, lock>>
report == <<repFound, repPassword, repAttempts, repSpeed>>
cancelHist == <<cancelled, attemptsAtCancel, activeAtCancel>>
output == <<printed, warnings>>
vars == <<env, shared, password_queue, joined, pc, cur, tmp, pos, report,
          passed, taken, verified, aborted, cancelHist, output>>

Main == 0
Threads == 0..MaxThreads
Workers == 1..num_threads
NoThread == -1
None == <<>>
NoEntry == [line |-> 0, text |-> <<>>]

\* import zipfile cannot fail: it is part of the standard library.
ZIP_SUPPORT == TRUE

----------------------------------------------------------------------------
\* The per-format checks.  Each helper catches every exception itself and
\* answers True or False.

Unlocks(p) == p \in unlocking

\* (Line 87 of the source carries a stray token `y` after `'-o' + tmpdir,`;
\* the helper is modelled as the list of arguments reads without it.)
try_password_7z(p) == Unlocks(p)

try_password_rar(p) == IF ~RAR_SUPPORT THEN FALSE ELSE Unlocks(p)

try_password_pdf(p) == Unlocks(p)

try_password_office(p) == IF ~OFFICE_SUPPORT THEN FALSE ELSE Unlocks(p)

try_password_ssh(p) == IF ~SSH_SUPPORT THEN FALSE ELSE Unlocks(p)

Bool(b) == IF b THEN "True" ELSE "False"

\* The try block of try_password: "True", "False", "raise" (PyKeePass raises
\* CredentialsError and ZipFile.open raises RuntimeError on a wrong
\* password), or "none" when no branch is taken.
FormatCheck(p) ==
    IF file_type = "kdbx" /\ KDBX_SUPPORT THEN
        (IF Unlocks(p) THEN "True" ELSE "raise")
    ELSE IF file_type = "zip" /\ ZIP_SUPPORT THEN
        (IF Unlocks(p) THEN "True" ELSE "raise")
    ELSE IF file_type = "rar" THEN Bool(try_password_rar(p))
    ELSE IF file_type = "7z" THEN Bool(try_password_7z(p))
    ELSE IF file_type = "pdf" THEN Bool(try_password_pdf(p))
    ELSE IF file_type = "office" THEN Bool(try_password_office(p))
    ELSE IF file_type = "ssh" THEN Bool(try_password_ssh(p))
    ELSE "none"

\* `except (CredentialsError, RuntimeError, Exception)`: the tuple is
\* evaluated when an exception reaches it, and the name CredentialsError is
\* bound only if the import of pykeepass succeeded; otherwise evaluating the
\* tuple raises NameError, which leaves try_password.
ExceptClauseCatches == KDBX_SUPPORT

\* The call prints "... support requires 'pip install ...'": try_password_rar,
\* try_password_office and try_password_ssh do so on every call that finds
\* the import missing, before they return False.
PrintsRequirement ==
    \/ file_type = "rar" /\ ~RAR_SUPPORT
    \/ file_type = "office" /\ ~OFFICE_SUPPORT
    \/ file_type = "ssh" /\ ~SSH_SUPPORT

\* Control reaches `if self.attempts % 100 == 0:` below the try block: only
\* when no branch was taken or when the exception of the kdbx / zip branch
\* was caught; every other branch ends in a return statement.
ReachesProgress(p) ==
    LET r == FormatCheck(p) IN
    \/ r = "none"
    \/ r = "raise" /\ ExceptClauseCatches

\* the readings of time.time() - self.start_time
Elapsed == 0..MaxElapsed

\* the result of a division by zero
ZeroDivisionError == -1

\* speed = self.attempts / elapsed if elapsed > 0 else 0
ProgressSpeed(a, el) == IF el > 0 THEN a \div el ELSE 0

\* brute_forcer.attempts/elapsed in the final report of main()
FinalSpeed(a, el) == IF el = 0 THEN ZeroDivisionError ELSE a \div el

\* What a trial that passed the guard gives its caller: "True", "False", or
\* "escape" for an exception that leaves try_password.
TrialResult(p) ==
    LET r == FormatCheck(p) IN
    IF r = "True" THEN "True"
    ELSE IF r = "raise" THEN (IF ExceptClauseCatches THEN "False" ELSE "escape")
    ELSE "False"

----------------------------------------------------------------------------
\* The optional imports at the top of the module and the two utilities
\* main() looks for.  A capability that the target's format never consults
\* is taken as present.
Environments ==
    { e \in [type : { detect_file_type(x) : x \in Extensions },
             kdbx : BOOLEAN, rar : BOOLEAN, ssh : BOOLEAN, office : BOOLEAN,
             tool : BOOLEAN] :
        /\ e.type \notin {"kdbx", "zip"} => e.kdbx
        /\ e.type # "rar" => e.rar
        /\ e.type # "ssh" => e.ssh
        /\ e.type # "office" => e.office
        /\ e.type \notin {"7z", "pdf"} => e.tool }

\* The state of a run that has not tried anything yet.
Fresh ==
    /\ found = FALSE
    /\ password = None
    /\ attempts = 0
    /\ lock = NoThread
    /\ password_queue = <<>>
    /\ joined = 0
    /\ cur = [t \in Threads |-> NoEntry]
    /\ tmp = [t \in Threads |-> 0]
    /\ pos = 0
    /\ repFound = FALSE
    /\ repPassword = None
    /\ repAttempts = 0
    /\ repSpeed = 0
    /\ passed = 0
    /\ taken = [i \in 1..Len(wordlist) |-> 0]
    /\ verified = {}
    /\ aborted = 0
    /\ cancelled = FALSE
    /\ attemptsAtCancel = 0
    /\ activeAtCancel = 0
    /\ printed = <<>>
    /\ warnings = 0

Init ==
    /\ wordlist \in Wordlists
    /\ unlocking \in SUBSET Passwords
    /\ num_threads \in 0..MaxThreads
    /\ target_exists \in BOOLEAN
    /\ wordlist_exists \in BOOLEAN
    /\ \E e \in Environments :
        /\ file_type = e.type
        /\ KDBX_SUPPORT = e.kdbx
        /\ RAR_SUPPORT = e.rar
        /\ SSH_SUPPORT = e.ssh
        /\ OFFICE_SUPPORT = e.office
        /\ TOOL_FOUND = e.tool
    /\ pc = [t \in Threads |-> IF t = Main THEN "main" ELSE "unstarted"]
    /\ Fresh

\* The process is running: daemon threads die with the main thread.
ProcessAlive ==
    pc[Main] \notin {"exited", "crashed", "no_run", "div_error", "interrupted"}

\* Where try_password's caller goes on.
AfterTrue(t) == IF t = Main THEN "s_setpw" ELSE "w_claim"
AfterFalse(t) == IF t = Main THEN "s_next" ELSE "w_loop"
AfterEscape(t) == IF t = Main THEN "crashed" ELSE "w_dead"

Running(t) == /\ ProcessAlive
              /\ IF t = Main THEN num_threads <= 0 ELSE t \in Workers

----------------------------------------------------------------------------
\* main(), up to the call of brute_force_single or brute_force_multi: the
\* two os.path.exists tests, the test run of the 7z / qpdf utility, and the
\* choice of the mode.  Each failed test prints an error and returns.
MainStart ==
    /\ pc[Main] = "main"
    /\ pc' = [pc EXCEPT ![Main] =
                 IF ~target_exists \/ ~wordlist_exists \/ ~TOOL_FOUND
                 THEN "no_run"
                 ELSE IF num_threads <= 0 THEN "s_next" ELSE "m_load"]
    /\ UNCHANGED <<env, shared, password_queue, joined, cur, tmp, pos, report,
                   passed, taken, verified, aborted, cancelHist, output>>

----------------------------------------------------------------------------
\* try_password, run by thread t on cur[t].text

\* password = password.strip(); if not password or self.found: return False
TryGuard(t) ==
    /\ Running(t)
    /\ pc[t] = "tp_guard"
    /\ IF strip(cur[t].text) = <<>> \/ found
       THEN /\ pc' = [pc EXCEPT ![t] = AfterFalse(t)]
            /\ cur' = [cur EXCEPT ![t] = NoEntry]
            /\ passed' = passed
       ELSE /\ pc' = [pc EXCEPT ![t] = "tp_lock"]
            /\ cur' = cur
            /\ passed' = passed + 1
    /\ UNCHANGED <<env, shared, password_queue, joined, tmp, pos, report,
                   taken, verified, aborted, cancelHist, output>>

\* A with block that lets a thread in whoever holds the lock.
CanAcquireUnlocked(t) == TRUE

\* `with self.lock:` admits one thread at a time.
CanAcquire(t) == lock = NoThread

\* with self.lock: (enter), and the read of self.attempts
TryLock(t) ==
    /\ Running(t)
    /\ pc[t] = "tp_lock"
    /\ CanAcquire(t)
    /\ lock' = t
    /\ tmp' = [tmp EXCEPT ![t] = attempts]
    /\ pc' = [pc EXCEPT ![t] = "tp_inc"]
    /\ UNCHANGED <<env, found, password, attempts, password_queue, joined, cur,
                   pos, report, passed, taken, verified, aborted, cancelHist, output>>

\* self.attempts += 1 (the write), and the exit of the with block
TryIncrement(t) ==
    /\ Running(t)
    /\ pc[t] = "tp_inc"
    /\ attempts' = tmp[t] + 1
    /\ tmp' = [tmp EXCEPT ![t] = 0]
    /\ lock' = NoThread
    /\ pc' = [pc EXCEPT ![t] = "tp_verify"]
    /\ UNCHANGED <<env, found, password, password_queue, joined, cur, pos,
                   report, passed, taken, verified, aborted, cancelHist, output>>

\* the try block with the per-format check, the progress line below it,
\* and the return
TryVerify(t) ==
    /\ Running(t)
    /\ pc[t] = "tp_verify"
    /\ LET p == strip(cur[t].text)
           r == TrialResult(p) IN
       /\ pc' = [pc EXCEPT ![t] = IF r = "True" THEN AfterTrue(t)
                                  ELSE IF r = "False" THEN AfterFalse(t)
                                  ELSE AfterEscape(t)]
       /\ cur' = IF r = "True" THEN cur ELSE [cur EXCEPT ![t] = NoEntry]
       /\ verified' = IF r = "True" THEN verified \cup {p} ELSE verified
       /\ warnings' = IF PrintsRequirement THEN warnings + 1 ELSE warnings
       \* if self.attempts % 100 == 0: ... print(f"Attempts: ...")
       /\ IF ReachesProgress(p) /\ attempts % ProgressEvery = 0
          THEN \E el \in Elapsed :
                  printed' = Append(printed,
                                    [attempts |-> attempts,
                                     elapsed |-> el,
                                     speed |-> ProgressSpeed(attempts, el)])
          ELSE printed' = printed
    /\ UNCHANGED <<env, shared, password_queue, joined, tmp, pos, report,
                   passed, taken, aborted, cancelHist>>

----------------------------------------------------------------------------
\* brute_force_single, run by the main thread

\* `for password in f:` and `if brute_forcer.found: break`
SingleNext ==
    /\ ProcessAlive
    /\ num_threads <= 0
    /\ pc[Main] = "s_next"
    /\ IF pos = Len(wordlist)
       THEN /\ pc' = [pc EXCEPT ![Main] = "returned"]
            /\ UNCHANGED <<pos, cur>>
       ELSE /\ pos' = pos + 1
            /\ cur' = [cur EXCEPT ![Main] =
                          [line |-> pos + 1, text |-> wordlist[pos + 1]]]
            /\ pc' = [pc EXCEPT ![Main] =
                          IF found THEN "returned" ELSE "tp_guard"]
    /\ UNCHANGED <<env, shared, password_queue, joined, tmp, report,
                   passed, taken, verified, aborted, cancelHist, output>>

\* brute_forcer.password = password.strip()
SingleSetPassword ==
    /\ ProcessAlive
    /\ num_threads <= 0
    /\ pc[Main] = "s_setpw"
    /\ password' = <<strip(cur[Main].text)>>
    /\ pc' = [pc EXCEPT ![Main] = "s_setfound"]
    /\ UNCHANGED <<env, found, attempts, lock, password_queue, joined, cur, tmp,
                   pos, report, passed, taken, verified, aborted, cancelHist, output>>

\* brute_forcer.found = True; break
SingleSetFound ==
    /\ ProcessAlive
    /\ num_threads <= 0
    /\ pc[Main] = "s_setfound"
    /\ found' = TRUE
    /\ pc' = [pc EXCEPT ![Main] = "returned"]
    /\ UNCHANGED <<env, password, attempts, lock, password_queue, joined, cur,
                   tmp, pos, report, passed, taken, verified, aborted, cancelHist, output>>

InSingleTry ==
    pc[Main] \in {"s_next", "tp_guard", "tp_lock", "tp_inc", "tp_verify",
                  "s_setpw", "s_setfound"}

\* KeyboardInterrupt anywhere in the try block of brute_force_single; the
\* with block releases the lock on the way out.
SingleInterrupt ==
    /\ ProcessAlive
    /\ num_threads <= 0
    /\ InSingleTry
    /\ ~cancelled
    /\ pc' = [pc EXCEPT ![Main] = "returned"]
    /\ lock' = IF lock = Main THEN NoThread ELSE lock
    /\ cancelled' = TRUE
    /\ attemptsAtCancel' = attempts
    /\ activeAtCancel' = 0
    /\ aborted' = IF pc[Main] \in {"tp_lock", "tp_inc"} THEN aborted + 1
                  ELSE aborted
    /\ UNCHANGED <<env, found, password, attempts, password_queue, joined, cur,
                   tmp, pos, report, passed, taken, verified, output>>

----------------------------------------------------------------------------
\* brute_force_multi, run by the main thread

\* the lines that are put in the queue: `if line.strip(): put(line.strip())`
RECURSIVE QueueFrom(_, _)
QueueFrom(w, i) ==
    IF i > Len(w) THEN <<>>
    ELSE IF strip(w[i]) # <<>>
         THEN <<[line |-> i, text |-> strip(w[i])]>> \o QueueFrom(w, i + 1)
         ELSE QueueFrom(w, i + 1)

\* password_queue = queue.Queue() and the loop that fills it
MultiLoad ==
    /\ ProcessAlive
    /\ pc[Main] = "m_load"
    /\ password_queue' = QueueFrom(wordlist, 1)
    /\ pc' = [pc EXCEPT ![Main] = "m_start"]
    /\ UNCHANGED <<env, shared, joined, cur, tmp, pos, report, passed, taken,
                   verified, aborted, cancelHist, output>>

\* the loop that creates and starts num_threads daemon threads
MultiStart ==
    /\ ProcessAlive
    /\ pc[Main] = "m_start"
    /\ pc' = [t \in Threads |->
                 IF t = Main THEN "m_loop"
                 ELSE IF t \in Workers THEN "w_loop" ELSE pc[t]]
    /\ UNCHANGED <<env, shared, password_queue, joined, cur, tmp, pos, report,
                   passed, taken, verified, aborted, cancelHist, output>>

\* A thread object whose is_alive() never turns false.
AliveAlways(t) == TRUE

\* t.is_alive()
Alive(t) == pc[t] \notin {"unstarted", "w_done", "w_dead"}

\* while any(t.is_alive() for t in threads) and not brute_forcer.found:
MultiLoopCheck ==
    /\ ProcessAlive
    /\ pc[Main] = "m_loop"
    /\ pc' = [pc EXCEPT ![Main] =
                 IF (\E w \in Workers : Alive(w)) /\ ~found
                 THEN "m_sleep" ELSE "m_join"]
    /\ UNCHANGED <<env, shared, password_queue, joined, cur, tmp, pos, report,
                   passed, taken, verified, aborted, cancelHist, output>>

\* time.sleep(0.1); if password_queue.qsize() == 0: break
MultiSleep ==
    /\ ProcessAlive
    /\ pc[Main] = "m_sleep"
    /\ pc' = [pc EXCEPT ![Main] =
                 IF Len(password_queue) = 0 THEN "m_join" ELSE "m_loop"]
    /\ UNCHANGED <<env, shared, password_queue, joined, cur, tmp, pos, report,
                   passed, taken, verified, aborted, cancelHist, output>>

\* except KeyboardInterrupt: ... brute_forcer.found = False
MultiInterrupt ==
    /\ ProcessAlive
    /\ pc[Main] \in {"m_loop", "m_sleep"}
    /\ ~cancelled
    /\ found' = FALSE
    /\ pc' = [pc EXCEPT ![Main] = "m_join"]
    /\ cancelled' = TRUE
    /\ attemptsAtCancel' = attempts
    /\ activeAtCancel' = Cardinality({w \in Workers : Alive(w)})
    /\ UNCHANGED <<env, password, attempts, lock, password_queue, joined, cur,
                   tmp, pos, report, passed, taken, verified, aborted, output>>

\* for t in threads: t.join(timeout=1) -- one pass of the loop; join returns
\* when the thread has ended or when the timeout has run out.
MultiJoin ==
    /\ ProcessAlive
    /\ pc[Main] = "m_join"
    /\ joined < num_threads
    /\ joined' = joined + 1
    /\ pc' = [pc EXCEPT ![Main] =
                 IF joined + 1 = num_threads THEN "returned" ELSE "m_join"]
    /\ UNCHANGED <<env, shared, password_queue, cur, tmp, pos, report, passed,
                   taken, verified, aborted, cancelHist, output>>

\* KeyboardInterrupt while the main thread is in the join loop: lines 314-315
\* are outside the try block, so the exception leaves brute_force_multi and
\* main(), and the process ends.
JoinInterrupt ==
    /\ ProcessAlive
    /\ pc[Main] = "m_join"
    /\ pc' = [pc EXCEPT ![Main] = "interrupted"]
    /\ UNCHANGED <<env, shared, password_queue, joined, cur, tmp, pos, report,
                   passed, taken, verified, aborted, cancelHist, output>>

----------------------------------------------------------------------------
\* worker, run by thread w

\* while not brute_forcer.found ...
WorkerLoop(w) ==
    /\ Running(w)
    /\ pc[w] = "w_loop"
    /\ pc' = [pc EXCEPT ![w] = IF found THEN "w_done" ELSE "w_empty"]
    /\ UNCHANGED <<env, shared, password_queue, joined, cur, tmp, pos, report,
                   passed, taken, verified, aborted, cancelHist, output>>

\* ... and not password_queue.empty():
WorkerEmpty(w) ==
    /\ Running(w)
    /\ pc[w] = "w_empty"
    /\ pc' = [pc EXCEPT ![w] =
                 IF password_queue = <<>> THEN "w_done" ELSE "w_get"]
    /\ UNCHANGED <<env, shared, password_queue, joined, cur, tmp, pos, report,
                   passed, taken, verified, aborted, cancelHist, output>>

\* Queue.get_nowait() removes the entry it returns.
get_nowait(q) == Tail(q)

\* password = password_queue.get_nowait(); except queue.Empty: break
WorkerGet(w) ==
    /\ Running(w)
    /\ pc[w] = "w_get"
    /\ IF password_queue = <<>>
       THEN /\ pc' = [pc EXCEPT ![w] = "w_done"]
            /\ UNCHANGED <<password_queue, cur, taken>>
       ELSE /\ cur' = [cur EXCEPT ![w] = Head(password_queue)]
            /\ taken' = [taken EXCEPT ![Head(password_queue).line] = @ + 1]
            /\ password_queue' = get_nowait(password_queue)
            /\ pc' = [pc EXCEPT ![w] = "tp_guard"]
    /\ UNCHANGED <<env, shared, joined, tmp, pos, report, passed, verified,
                   aborted, cancelHist, output>>

\* with brute_forcer.lock: brute_forcer.found = True
WorkerClaim(w) ==
    /\ Running(w)
    /\ pc[w] = "w_claim"
    /\ CanAcquire(w)
    /\ lock' = w
    /\ found' = TRUE
    /\ pc' = [pc EXCEPT ![w] = "w_setpw"]
    /\ UNCHANGED <<env, password, attempts, password_queue, joined, cur, tmp,
                   pos, report, passed, taken, verified, aborted, cancelHist, output>>

\* brute_forcer.password = password.strip(), the exit of the with block,
\* and password_queue.task_done()
WorkerSetPassword(w) ==
    /\ Running(w)
    /\ pc[w] = "w_setpw"
    /\ password' = <<strip(cur[w].text)>>
    /\ lock' = NoThread
    /\ cur' = [cur EXCEPT ![w] = NoEntry]
    /\ pc' = [pc EXCEPT ![w] = "w_loop"]
    /\ UNCHANGED <<env, found, attempts, password_queue, joined, tmp, pos,
                   report, passed, taken, verified, aborted, cancelHist, output>>

----------------------------------------------------------------------------
\* main(), after brute_force_single or brute_force_multi has returned

\* if brute_forcer.found:
ReportFound ==
    /\ pc[Main] = "returned"
    /\ repFound' = found
    /\ pc' = [pc EXCEPT ![Main] = "r_rest"]
    /\ UNCHANGED <<env, shared, password_queue, joined, cur, tmp, pos,
                   repPassword, repAttempts, repSpeed, passed, taken, verified, aborted, cancelHist, output>>

\* the prints of brute_forcer.password (success branch), of
\* brute_forcer.attempts and of brute_forcer.attempts/elapsed, with the
\* elapsed of line 381; then the process ends
ReportRest ==
    /\ pc[Main] = "r_rest"
    /\ repPassword' = IF repFound THEN password ELSE repPassword
    /\ repAttempts' = attempts
    /\ \E el \in Elapsed :
        IF FinalSpeed(attempts, el) = ZeroDivisionError
        THEN /\ repSpeed' = repSpeed
             /\ pc' = [pc EXCEPT ![Main] = "div_error"]
        ELSE /\ repSpeed' = FinalSpeed(attempts, el)
             /\ pc' = [pc EXCEPT ![Main] = "exited"]
    /\ UNCHANGED <<env, shared, password_queue, joined, cur, tmp, pos,
                   repFound, passed, taken, verified, aborted, cancelHist, output>>

----------------------------------------------------------------------------
Next ==
    \/ MainStart
    \/ SingleNext
    \/ SingleSetPassword
    \/ SingleSetFound
    \/ SingleInterrupt
    \/ MultiLoad
    \/ MultiStart
    \/ MultiLoopCheck
    \/ MultiSleep
    \/ MultiInterrupt
    \/ MultiJoin
    \/ JoinInterrupt
    \/ ReportFound
    \/ ReportRest
    \/ \E t \in Threads :
        \/ TryGuard(t)
        \/ TryLock(t)
        \/ TryIncrement(t)
        \/ TryVerify(t)
    \/ \E w \in 1..MaxThreads :
        \/ WorkerLoop(w)
        \/ WorkerEmpty(w)
        \/ WorkerGet(w)
        \/ WorkerClaim(w)
        \/ WorkerSetPassword(w)

Spec == Init /\ [][Next]_vars

----------------------------------------------------------------------------
\* Runs picked up shortly before the first progress line is due.

\* the trials already made: two short of the first multiple of ProgressEvery
NearStart == ProgressEvery - 2

\* The state of a run whose first NearStart lines, each the candidate "a",
\* have been tried and have failed, one after the other: in
\* brute_force_single the file iterator stands after them, in
\* brute_force_multi the queue holds the rest of the wordlist and every
\* worker is at the top of its loop.
InitNearReport ==
    /\ \E rest \in Wordlists :
          wordlist = [i \in 1..(NearStart + Len(rest)) |->
                         IF i <= NearStart THEN <<"a", "\n">>
                         ELSE rest[i - NearStart]]
    /\ unlocking \in SUBSET (Passwords \ {<<"a">>})
    /\ num_threads \in 0..MaxThreads
    /\ target_exists = TRUE
    /\ wordlist_exists = TRUE
    /\ \E e \in Environments :
        /\ file_type = e.type
        /\ KDBX_SUPPORT = e.kdbx
        /\ RAR_SUPPORT = e.rar
        /\ SSH_SUPPORT = e.ssh
        /\ OFFICE_SUPPORT = e.office
        /\ TOOL_FOUND = e.tool
    /\ TOOL_FOUND
    /\ TrialResult(<<"a">>) = "False"
    /\ found = FALSE
    /\ password = None
    /\ attempts = NearStart
    /\ lock = NoThread
    /\ password_queue = IF num_threads <= 0 THEN <<>>
                        ELSE QueueFrom(wordlist, NearStart + 1)
    /\ joined = 0
    /\ pc = [t \in Threads |->
                IF t = Main
                THEN (IF num_threads <= 0 THEN "s_next" ELSE "m_loop")
                ELSE IF t \in Workers THEN "w_loop" ELSE "unstarted"]
    /\ cur = [t \in Threads |-> NoEntry]
    /\ tmp = [t \in Threads |-> 0]
    /\ pos = IF num_threads <= 0 THEN NearStart ELSE 0
    /\ repFound = FALSE
    /\ repPassword = None
    /\ repAttempts = 0
    /\ repSpeed = 0
    /\ passed = NearStart
    /\ taken = [i \in 1..Len(wordlist) |->
                   IF num_threads >= 1 /\ i <= NearStart THEN 1 ELSE 0]
    /\ verified = {}
    /\ aborted = 0
    /\ cancelled = FALSE
    /\ attemptsAtCancel = 0
    /\ activeAtCancel = 0
    /\ printed = <<>>
    /\ warnings = IF PrintsRequirement THEN NearStart ELSE 0

\* The scheduler of the operating system lets every thread that can take a
\* step take one eventually; a KeyboardInterrupt may or may not come.
MainStep ==
    \/ MainStart
    \/ SingleNext \/ SingleSetPassword \/ SingleSetFound
    \/ MultiLoad \/ MultiStart \/ MultiLoopCheck \/ MultiSleep \/ MultiJoin
    \/ ReportFound \/ ReportRest
    \/ TryGuard(Main) \/ TryLock(Main) \/ TryIncrement(Main) \/ TryVerify(Main)

WorkerStep(w) ==
    \/ WorkerLoop(w) \/ WorkerEmpty(w) \/ WorkerGet(w)
    \/ WorkerClaim(w) \/ WorkerSetPassword(w)
    \/ TryGuard(w) \/ TryLock(w) \/ TryIncrement(w) \/ TryVerify(w)

\* For the question whether a run ends, the file types differ only in what a
\* trial gives its caller, and a zip target gives all three results: True,
\* False (the except clause catches) and an escaping exception (it does
\* not).  The fair runs are taken on zip targets.
InitZip == Init /\ file_type = "zip"

FairSpec ==
    /\ InitZip /\ [][Next]_vars
    /\ WF_vars(MainStep)
    /\ \A w \in 1..MaxThreads : WF_vars(WorkerStep(w))

\* Every run from its start, and the runs picked up near the progress line.
SpecProgress == (Init \/ InitNearReport) /\ [][Next]_vars

TypeOK ==
    /\ found \in BOOLEAN
    /\ attempts \in Nat
    /\ lock \in Threads \cup {NoThread}
    /\ Len(password) <= 1

----------------------------------------------------------------------------
\* Vocabulary of the properties

\* the lines of the wordlist that are non-empty after trimming
NonEmpty(w) == { i \in 1..Len(w) : strip(w[i]) # <<>> }

\* line i holds a candidate the per-format check accepts
Correct(i) ==
    /\ i \in NonEmpty(wordlist)
    /\ FormatCheck(strip(wordlist[i])) = "True"

NoCorrect == \A i \in 1..Len(wordlist) : ~Correct(i)

\* the line of the first correct candidate (only used when there is one)
FirstCorrect ==
    CHOOSE k \in 1..Len(wordlist) :
        Correct(k) /\ \A j \in 1..(k - 1) : ~Correct(j)

Sequential == num_threads <= 0
Concurrent == num_threads >= 1

\* brute_force_single / brute_force_multi has returned to main()
Returned == pc[Main] \in {"returned", "r_rest", "exited", "div_error"}

\* the run is over: the function returned, or an exception ended the thread
\* that ran it
Ended == Returned \/ pc[Main] = "crashed"

\* threads between the guard of try_password and its increment
InFlight == Cardinality({ t \in Threads : pc[t] \in {"tp_lock", "tp_inc"} })

----------------------------------------------------------------------------
\* C1.  Concurrent mode, first writer wins: with no cancellation, once found
\* is true and the winning password is recorded, no step of any worker
\* changes the winning password.
C1_FirstWriterWins ==
    [][(Concurrent /\ ~cancelled' /\ found /\ password # None)
          => password' = password]_vars

\* C2.  found is monotone within a run: no step takes it from true back to
\* false, in either mode, interrupted or not.
C2_FoundMonotone == [][found => found']_vars

\* C3.  No fabricated or half-written success: in every reachable state,
\* found = true implies that the winning password is set, is non-empty and is
\* a candidate on which a trial of this run returned True.
C3_NoHalfWrittenSuccess ==
    found => /\ password # None
             /\ password[1] # <<>>
             /\ password[1] \in verified

\* C4.  Sequential mode, exhaustion: a run on a wordlist without a correct
\* candidate that is not cancelled ends by brute_force_single returning, with
\* found = false, no winning password and attempts equal to the number of
\* lines that are non-empty after trimming.
C4_SequentialExhaustion ==
    (Sequential /\ Ended /\ ~cancelled /\ NoCorrect)
        => /\ Returned
           /\ ~found
           /\ password = None
           /\ attempts = Cardinality(NonEmpty(wordlist))

\* C5.  Sequential mode, success: a run on a wordlist whose first correct
\* candidate is on line k that is not cancelled ends by brute_force_single
\* returning, with found = true, the winning password equal to that candidate
\* trimmed, attempts equal to the number of non-empty lines among 1..k (so
\* attempts <= k), and no line after k read.
C5_SequentialSuccess ==
    (Sequential /\ Ended /\ ~cancelled /\ ~NoCorrect)
        => LET k == FirstCorrect IN
           /\ Returned
           /\ found
           /\ password = <<strip(wordlist[k])>>
           /\ attempts = Cardinality({ i \in NonEmpty(wordlist) : i <= k })
           /\ attempts <= k
           /\ pos = k

\* C6.  Concurrent mode, bounded cancellation: after a KeyboardInterrupt in
\* the coordinating loop, attempts grows by at most one per worker that was
\* alive when the interrupt was handled.
C6_BoundedCancellation ==
    (Concurrent /\ cancelled)
        => attempts - attemptsAtCancel <= activeAtCancel

\* C7.  Concurrent mode, exhaustion count: in a run without a correct
\* candidate and without cancellation, the final report of main() shows
\* found = false and attempts equal to the number of lines that are non-empty
\* after trimming.
C7_ConcurrentExhaustionCount ==
    (Concurrent /\ pc[Main] = "exited" /\ ~cancelled /\ NoCorrect)
        => /\ ~repFound
           /\ repAttempts = Cardinality(NonEmpty(wordlist))

\* C8.  Exactly-once delivery from the queue: no entry is returned by
\* get_nowait more than once, and when brute_force_multi returns from a run
\* without a correct candidate and without cancellation, every entry that
\* was put in the queue has been returned to some worker.  (A worker whose
\* get_nowait finds the queue empty ends in "w_done": see WorkerGet.)
C8_ExactlyOnceDelivery ==
    /\ \A i \in 1..Len(wordlist) : taken[i] <= 1
    /\ (Concurrent /\ Returned /\ ~cancelled /\ NoCorrect)
          => \A i \in NonEmpty(wordlist) : taken[i] = 1

\* C9 as stated.  attempts equals the number of trials that have passed the
\* guard of try_password, those that have not reached the increment yet set
\* aside; it never exceeds the number of non-empty lines and never decreases.
C9_CountsEveryPassedTrial ==
    /\ [](attempts + InFlight = passed)
    /\ [](attempts <= Cardinality(NonEmpty(wordlist)))
    /\ [][attempts' >= attempts]_vars

\* C9 as amended.  attempts never decreases, never exceeds the number of
\* non-empty lines, and equals the number of trials that have passed the
\* guard of try_password, less those that have not reached the increment yet
\* and those a KeyboardInterrupt cut short before the increment: no
\* increment is lost under any interleaving and no trial is counted twice.
C9_LossFreeCounting ==
    /\ [](attempts + InFlight + aborted = passed)
    /\ [](attempts <= Cardinality(NonEmpty(wordlist)))
    /\ [][attempts' >= attempts]_vars

\* Two workers have their trials in flight at once and both are counted.
C9_Witness ==
    /\ num_threads >= 2
    /\ pc[1] = "tp_verify" /\ pc[2] = "tp_verify"
    /\ attempts = 2
    /\ passed = 2

\* C10.  No trial aborts the run: no exception leaves try_password, so
\* neither the sequential loop nor a worker thread is ended by one.
C10_NoTrialAborts == \A t \in Threads : pc[t] \notin {"crashed", "w_dead"}

\* C11.  The speed is division-safe wherever it is computed: no progress
\* line of try_password and no final report of main() ends in a division
\* error, and a progress line computed with an elapsed time of zero shows
\* the speed 0.
C11_SpeedDivisionSafe ==
    /\ pc[Main] # "div_error"
    /\ \A i \in 1..Len(printed) :
          /\ printed[i].speed # ZeroDivisionError
          /\ printed[i].elapsed = 0 => printed[i].speed = 0

\* C12.  Found is final for trials: in concurrent mode, from a state in
\* which found is true no step increments attempts and no step starts a
\* per-format check.
C12_FoundFinalForTrials ==
    [][(Concurrent /\ found)
          => /\ attempts' = attempts
             /\ \A t \in Threads :
                   pc'[t] = "tp_verify" => pc[t] = "tp_verify"]_vars

\* C13.  Cancelled is final for the outcome: in concurrent mode, when
\* brute_force_multi has handled a KeyboardInterrupt, the found that main()
\* reads for its final report is false.
C13_CancelledIsFinal ==
    (Concurrent /\ cancelled /\ pc[Main] \in {"r_rest", "exited", "div_error"})
        => ~repFound

\* C14.  Drain discards late results: in concurrent mode, once
\* brute_force_multi has returned, no step of a worker that the join loop
\* left running changes found, the winning password or attempts before
\* main() has read them for its report.
C14_DrainDiscardsLateResults ==
    [][(Concurrent /\ pc[Main] \in {"returned", "r_rest"})
          => /\ found' = found
             /\ password' = password
             /\ attempts' = attempts]_vars

\* The exit status of the process.  main() returns None on every path and
\* the module never calls sys.exit, so the interpreter ends with 0 unless an
\* exception has left main() (then with 1).
NoStatus == -1
ExitStatus ==
    IF pc[Main] \in {"exited", "no_run"} THEN 0
    ELSE IF pc[Main] \in {"crashed", "div_error", "interrupted"} THEN 1
    ELSE NoStatus

\* the status after the SUCCESS report
StatusAfterSuccess == 0

\* main() returned because the target file or the wordlist does not exist
PreconditionError ==
    pc[Main] = "no_run" /\ (~target_exists \/ ~wordlist_exists)

\* C15.  The exit status tells the three outcomes of main() apart: a run
\* reported as not found and a run refused for a missing target file or
\* wordlist end with a status other than that of a run reported as found;
\* and a refused run has created no attack (nothing loaded, no thread
\* started) and has attempts = 0.
C15_ExitStatusDistinguishes ==
    /\ (pc[Main] = "exited" /\ repFound) => ExitStatus = StatusAfterSuccess
    /\ (pc[Main] = "exited" /\ ~repFound) => ExitStatus # StatusAfterSuccess
    /\ PreconditionError
          => /\ ExitStatus # StatusAfterSuccess
             /\ attempts = 0
             /\ password_queue = <<>>
             /\ \A w \in 1..MaxThreads : pc[w] = "unstarted"

\* C16.  The winning password is set iff found is true: in every reachable
\* state of either mode the winning password is set exactly when found is
\* true, and once it has been written no step writes another one.
C16_PasswordIffFound ==
    /\ [](found <=> password # None)
    /\ [][password # None => password' = password]_vars

\* the progress lines printed for the attempts value m
LinesFor(m) == { i \in 1..Len(printed) : printed[i].attempts = m }

\* no trial is under way and none has succeeded, been cut short or died
AllTrialsFailed ==
    /\ \A t \in Threads :
          pc[t] \notin {"tp_guard", "tp_lock", "tp_inc", "tp_verify",
                        "crashed", "w_dead"}
    /\ verified = {}
    /\ ~cancelled

\* C17.  Progress cadence: every progress line shows a multiple of
\* ProgressEvery, no multiple is shown twice, and once the trials made so
\* far have all failed, every multiple of ProgressEvery that attempts has
\* reached has its line -- for every file type and in both modes.
C17_ProgressCadence ==
    /\ \A i \in 1..Len(printed) : printed[i].attempts % ProgressEvery = 0
    /\ \A m \in 1..attempts : Cardinality(LinesFor(m)) <= 1
    /\ AllTrialsFailed
          => \A m \in 1..attempts :
                m % ProgressEvery = 0 => Cardinality(LinesFor(m)) = 1

\* C18.  Capability warning once per run: the "... support requires ..."
\* line of a helper whose import is missing is printed at most once in a
\* run; and on such a target every trial is counted and fails, so nothing
\* is verified and found stays false.
C18_WarningOncePerRun ==
    /\ warnings <= 1
    /\ PrintsRequirement
          => /\ ~found
             /\ password = None
             /\ verified = {}
             /\ attempts + InFlight + aborted = passed

\* C19.  Concurrent mode finds a password that is there: a run on a wordlist
\* with at least one correct candidate that is not cancelled is reported by
\* main() as found, with a password the per-format check accepts.
C19_ConcurrentFinds ==
    (Concurrent /\ ~cancelled /\ ~NoCorrect
        /\ pc[Main] \in {"exited", "div_error"})
        => /\ repFound
           /\ repPassword # None
           /\ FormatCheck(repPassword[1]) = "True"

\* brute_force_multi is over: it has returned or a KeyboardInterrupt has
\* ended it (or main() never called it)
MultiOver ==
    \/ Sequential
    \/ pc[Main] \in {"no_run", "returned", "r_rest", "exited", "div_error",
                     "interrupted"}

\* every worker thread has ended, or the process has
WorkersStopped ==
    \/ ~ProcessAlive
    \/ \A w \in 1..MaxThreads : pc[w] \in {"unstarted", "w_done", "w_dead"}

\* the lock is held only inside the two with blocks: never during a
\* per-format check, a queue operation or a wait
LockHeldBriefly ==
    \A t \in Threads :
        lock = t => /\ ProcessAlive => pc[t] \in {"tp_inc", "w_setpw"}
                    /\ pc[t] \notin {"tp_verify", "w_empty", "w_get",
                                     "tp_guard", "tp_lock", "w_claim"}

====
